---- MODULE Spec2Model ----
(***************************************************************************)
(* Model of podz_sphere_scanner.py: the byte budget (DataCounter), the     *)
(* checkpoint store (ZeroBalanceState), the probe of one host              *)
(* (ZeroBalanceScanner.minimal_request / scan_domain), the sequential      *)
(* coordinator (start_scanning) and main().                                *)
(*                                                                         *)
(* A host is identified by its index in the domain list (domains[i] is     *)
(* host i, 0-based as in the source).  A process is started either through *)
(* main(), which installs a SIGINT handler that calls sys.exit(0), or by a *)
(* direct call of start_scanning(domains), where Python's default SIGINT   *)
(* handler raises KeyboardInterrupt.  The checkpoint file outlives the     *)
(* process; everything else is reset when a new process starts.            *)
(***************************************************************************)
EXTENDS Integers, Sequences, FiniteSets, TLC

VARIABLES
    pc,             \* position of the process
    entry,          \* "main" or "direct": how start_scanning was entered
    handler,        \* SIGINT disposition: "default" (KeyboardInterrupt) or "exit" (sys.exit)
    runs,           \* number of processes started so far
    total,          \* len(domains) of the user's domain file
    env,            \* the network: the ways a host may answer, and how many answers are accounted
    file,           \* content of CONFIG["STATE_FILE"]
    state,          \* main: what ask_resume() returned
    resume_index,   \* start_scanning parameter
    i,              \* loop variable of start_scanning
    i_bound,        \* 'i' in locals()
    stats,          \* start_scanning: the dict taken from get_stats()
    data_counter,   \* scanner.data_counter
    found_domains,  \* scanner.found_domains
    found_count,    \* start_scanning local
    host,           \* how domains[i] answers HEAD and GET
    result,         \* what minimal_request returned for domains[i]
    ret,            \* what start_scanning returned
    all_found,      \* main: list(set(found_domains + found))
    probed,         \* history: hosts whose probe was started in this process
    completed,      \* history: hosts whose scan_domain call has returned in this process
    answered,       \* history: domains[i] has sent an HTTP response to this probe
    exceededAt,     \* history: index of the host during whose probe add_bytes first returned False
    endedBy,        \* history: why the loop was left
    intSaved,       \* history: the KeyboardInterrupt handler saved a checkpoint
    lastSaved,      \* history: last checkpoint saved by this process
    fileDone,       \* history: 'completed' of the writing process when the file was written
    resumedDone,    \* history: fileDone of the checkpoint this process resumed from
    callLog,        \* history: arguments of the add_bytes calls (budget specification)
    retLog,         \* history: values returned by the add_bytes calls (budget specification)
    max_workers,    \* TrafficScanner.max_workers
    domains,        \* scan_domains parameter: how each domain of the list answers
    queue,          \* scan_domains: q, the queue.Queue, as the indices still in it
    unfinished_tasks, \* q.unfinished_tasks, what q.join() waits for
    threads,        \* scan_domains: number of worker threads started
    results,        \* TrafficScanner.results, as domain indices
    tstats,         \* TrafficScanner.stats
    index,          \* scan_domains: index[0]
    wpc,            \* position of each worker thread
    wdomain,        \* worker local: domain
    wresult,        \* worker local: result
    wtmp,           \* worker: the value loaded by the += in progress
    started,        \* history: domain indices in the order their check_domain call started
    prevRet,        \* history: what start_scanning returned in the run before this one
    prevEndedBy,    \* history: why the loop of the run before this one was left
    saving,         \* ZeroBalanceState.save: the dict being dumped
    loadRet,        \* what the last ZeroBalanceState.load() returned
    raised,         \* the last ZeroBalanceState operation raised an exception
    prevCheckpoint, \* history: content of the state file when the last save began
    lastOps,        \* history: the last two ZeroBalanceState operations
    stream,         \* the chunks response.iter_content yields (sampling specification)
    sampled,        \* len(content_bytes) when the chunk loop was left (sampling specification)
    saveOk          \* history: what the last ZeroBalanceState.save of this process returned

procVars_rest == <<entry, handler, runs, total, env>>
procVars == <<pc, procVars_rest>>
mainVars == <<state, resume_index, all_found, ret>>
scanVars == <<i, i_bound, stats, data_counter, found_domains, found_count, host, result>>
histVars == <<probed, completed, answered, exceededAt, endedBy, intSaved, lastSaved, resumedDone>>
fileVars == <<file, fileDone>>
logVars  == <<callLog, retLog>>
trafficVars == <<max_workers, domains, queue, unfinished_tasks, threads, results, tstats, index,
                 wpc, wdomain, wresult, wtmp, started>>
cmpVars == <<prevRet, prevEndedBy>>
storeVars == <<saving, loadRet, raised, prevCheckpoint, lastOps>>
sampleVars == <<stream, sampled>>
faultVars == <<saveOk>>
restVars == <<trafficVars, cmpVars, storeVars, sampleVars, faultVars>>
vars == <<procVars, mainVars, scanVars, histVars, fileVars, logVars, restVars>>

(***************************************************************************)
(* Bounds of the model                                                     *)
(***************************************************************************)
MaxHosts == 11      \* longest domain list
MaxRuns  == 2       \* processes started one after the other
MaxCalls == 4       \* add_bytes calls in the budget specification
MaxAnswers == 2     \* accounted answers after which the remaining hosts are dead
MaxResumeAnswers == 1   \* the same, in the specification of successive processes

(***************************************************************************)
(* CONFIG                                                                  *)
(***************************************************************************)
MAX_DATA_USAGE == 1024 * 10
CHUNK_SIZE == 512

(***************************************************************************)
(* Values                                                                  *)
(***************************************************************************)
Range(s) == {s[k] : k \in 1..Len(s)}

\* None, as returned by ZeroBalanceState.load() and as the absent state file
NoState == [some |-> FALSE, total_domains |-> 0, current_index |-> 0, found_domains |-> <<>>]

\* the state file after open(STATE_FILE, 'w') and before json.dump has written it all:
\* it exists and holds no complete JSON document
PartialFile == [some |-> TRUE, total_domains |-> -1, current_index |-> -1, found_domains |-> <<>>]

\* None, as returned by minimal_request
NoResult == [some |-> FALSE, status |-> 0, data |-> 0, method |-> "-", has_size |-> FALSE, size |-> 0]

NoStats == [bytes |-> 0, requests |-> 0]
NoRet == [some |-> FALSE, found |-> <<>>, stats |-> NoStats]

\* an HTTP exchange: ok = FALSE is any exception of the request (timeout, refused, ...);
\* hlen is len(str(response.headers)), body the chunks iter_content yields
Exc == [ok |-> FALSE, status |-> 0, hlen |-> 0, body |-> <<>>]
Resp(s, h, b) == [ok |-> TRUE, status |-> s, hlen |-> h, body |-> b]

FullBody  == [k \in 1..12 |-> 512]      \* 6144 bytes
SmallBody == <<100>>
EmptyBody == <<>>

\* how a host answers the HEAD and the GET of one probe
Kind(h, g) == [head |-> h, get |-> g]
DeadHost == Kind(Exc, Exc)
HostKinds ==
    { DeadHost,
      Kind(Resp(200, 824, <<>>), Resp(200, 824, FullBody)),     \* answers HEAD and GET
      Kind(Resp(200, 4920, <<>>), Resp(200, 4920, FullBody)),   \* the same, long headers
      Kind(Exc, Resp(200, 824, FullBody)),                      \* HEAD fails, GET answers
      Kind(Exc, Resp(200, 4920, FullBody)),
      Kind(Resp(405, 824, <<>>), Resp(200, 824, FullBody)),     \* HEAD rejected, GET answers
      Kind(Exc, Resp(200, 724, SmallBody)),                     \* 100 bytes of body
      Kind(Exc, Resp(200, 824, EmptyBody)),                     \* no body
      Kind(Resp(404, 824, <<>>), Resp(404, 824, FullBody)) }    \* error page
NoHost == DeadHost

\* the hosts of the specification of successive processes
ResumeKinds == {DeadHost, Kind(Exc, Resp(200, 824, FullBody))}

ByteCounts == {0, 1, 5119, 5120, 10240}

(***************************************************************************)
(* DataCounter                                                             *)
(***************************************************************************)
NewCounter == [bytes_used |-> 0, requests_made |-> 0]

\* the limit test written with >=
add_bytes_ge(dc, bytes_count) ==
    LET used == dc.bytes_used + bytes_count
    IN  [dc  |-> [bytes_used |-> used, requests_made |-> dc.requests_made + 1],
         ret |-> ~(used >= MAX_DATA_USAGE)]

add_bytes(dc, bytes_count) ==
    LET used == dc.bytes_used + bytes_count
    IN  [dc  |-> [bytes_used |-> used, requests_made |-> dc.requests_made + 1],
         ret |-> ~(used > MAX_DATA_USAGE)]

get_stats(dc) == [bytes |-> dc.bytes_used, requests |-> dc.requests_made]

(***************************************************************************)
(* ZeroBalanceState: the record json.dump writes and json.load reads back  *)
(* (integers and a list of strings: the round trip is exact; the timestamp *)
(* is only displayed and is left out)                                      *)
(***************************************************************************)
save(domains_len, current_index, found) ==
    [some |-> TRUE, total_domains |-> domains_len, current_index |-> current_index,
     found_domains |-> found]

\* a load that hands out whatever the file holds
load_unchecked(f) == f

\* json.load raises on a file that is not a complete document; the bare except
\* returns None
load(f) == IF ~f.some THEN NoState ELSE IF f = PartialFile THEN NoState ELSE f

\* a clear that removes the file without looking whether it exists
clear_unguarded(f) == [file |-> NoState, raised |-> ~f.some]

\* if os.path.exists(STATE_FILE): os.remove(STATE_FILE)
clear(f) == IF f.some THEN [file |-> NoState, raised |-> FALSE]
            ELSE [file |-> f, raised |-> FALSE]

\* how a call of save may go: the document is written; open raises (the file is left
\* as it was); json.dump raises after open has truncated the file
SaveOutcomes == {"ok", "open_failed", "dump_failed"}

\* the state file after save(...)
save_file(f, written, outcome) ==
    IF outcome = "ok" THEN written
    ELSE IF outcome = "open_failed" THEN f ELSE PartialFile

\* return True after the dump, return False in the bare except
save_returns(outcome) == outcome = "ok"

\* a delete that leaves the file in place
delete_noop(f) == f

delete(f) == IF f.some THEN NoState ELSE f

(***************************************************************************)
(* ZeroBalanceScanner                                                      *)
(***************************************************************************)
\* the loop over response.iter_content: len(content_bytes) when the loop is left
RECURSIVE read_content(_, _)
read_content(chunks, content_len) ==
    IF chunks = <<>> THEN content_len
    ELSE LET n == content_len + Head(chunks)
         IN  IF n >= CHUNK_SIZE THEN n ELSE read_content(Tail(chunks), n)

head_data_used(r) == r.hlen + 200

get_data_used(r) == r.hlen + read_content(r.body, 0) + 200

\* the dict returned after an accounted HEAD: it has no "size" key
head_result(r) ==
    [some |-> TRUE, status |-> r.status, data |-> head_data_used(r), method |-> "HEAD",
     has_size |-> FALSE, size |-> 0]

get_result(r) ==
    [some |-> TRUE, status |-> r.status, data |-> get_data_used(r), method |-> "GET",
     has_size |-> TRUE, size |-> read_content(r.body, 0)]

\* a failed request that comes back as a full answer
request_failed_as_answer ==
    [some |-> TRUE, status |-> 200, data |-> 0, method |-> "GET", has_size |-> TRUE,
     size |-> CHUNK_SIZE]

\* minimal_request when the GET raises: except Exception: pass, then return None
request_failed == NoResult

\* result.get("size", 0)
result_size(res) == IF res.has_size THEN res.size ELSE 0

\* the success criteria without the content check
scan_domain_nosize(res) == res.some /\ res.status < 400

\* the success criteria with the content check alone
scan_domain_nostatus(res) == res.some /\ result_size(res) > 100

\* scan_domain after minimal_request: TRUE when the domain is appended to found_domains
scan_domain(res) ==
    IF res.some
    THEN IF res.status < 400
         THEN result_size(res) > 100
         ELSE FALSE
    ELSE FALSE

(***************************************************************************)
(* main(): the pieces that are computed from the loaded state              *)
(***************************************************************************)
\* ask_resume: choice 1 returns the state, choices 2 and 3 delete it
ask_resume(loaded, choice) == IF loaded.some /\ choice = 1 THEN loaded ELSE NoState

\* a resume that starts over
main_resume_index_zero(st) == 0

main_resume_index(st) == IF st.some THEN st.current_index ELSE 0

main_found_domains(st) == IF st.some THEN st.found_domains ELSE <<>>

main_all_found(prev, found) == Range(prev) \cup Range(found)

\* a cursor that counts the host in progress as done
current_pos_next == IF i_bound THEN i + 1 ELSE resume_index

\* start_scanning, except KeyboardInterrupt
current_pos == IF i_bound THEN i ELSE resume_index

(***************************************************************************)
(* TrafficScanner: values                                                  *)
(***************************************************************************)
MaxDomains == 2     \* longest list handed to scan_domains
MaxWorkers == 2     \* largest worker count entered at the settings prompt

Workers == 1..MaxWorkers

\* how a domain answers the HEAD and the GET of check_domain
TrafficKinds ==
    { DeadHost,
      Kind(Resp(200, 824, <<>>), Exc),                          \* answers HEAD
      Kind(Resp(405, 824, <<>>), Resp(200, 824, FullBody)),     \* HEAD rejected, GET has data
      Kind(Resp(405, 824, <<>>), Resp(200, 824, EmptyBody)) }   \* HEAD rejected, GET is empty

NewTrafficStats == [total |-> 0, with_traffic |-> 0, no_traffic |-> 0, errors |-> 0]

\* TrafficScanner.__init__, and scan_domains not yet called
TrafficNew ==
    /\ queue = <<>> /\ unfinished_tasks = 0 /\ threads = 0
    /\ results = <<>> /\ tstats = NewTrafficStats /\ index = 0
    /\ wpc = [w \in Workers |-> "-"] /\ wdomain = [w \in Workers |-> -1]
    /\ wresult = [w \in Workers |-> FALSE] /\ wtmp = [w \in Workers |-> 0]
    /\ started = <<>>

\* no TrafficScanner in this process
TrafficIdle == max_workers = 0 /\ domains = <<>> /\ TrafficNew

\* no run before this one
NoPrev == prevRet = NoRet /\ prevEndedBy = "-"

\* no ZeroBalanceState operation on its own
StoreIdle ==
    /\ saving = NoState /\ loadRet = NoState /\ raised = FALSE
    /\ prevCheckpoint = NoState /\ lastOps = <<"-", "-">>

\* no response being sampled on its own
SampleIdle == stream = <<>> /\ sampled = 0

\* no save of this process has failed
NoFault == saveOk = TRUE

RestIdle == TrafficIdle /\ NoPrev /\ StoreIdle /\ SampleIdle /\ NoFault

(***************************************************************************)
(* Initial state: a fresh process, no state file, the user's domain file   *)
(***************************************************************************)
MemoryInit ==
    /\ entry = "-" /\ handler = "default"
    /\ state = NoState /\ resume_index = 0 /\ all_found = {} /\ ret = NoRet
    /\ i = 0 /\ i_bound = FALSE /\ stats = NoStats /\ data_counter = NewCounter
    /\ found_domains = <<>> /\ found_count = 0 /\ host = NoHost /\ result = NoResult
    /\ probed = {} /\ completed = {} /\ answered = FALSE /\ exceededAt = -1 /\ endedBy = "-"
    /\ intSaved = FALSE /\ lastSaved = NoState /\ resumedDone = {}
    /\ callLog = <<>> /\ retLog = <<>>

\* one process, every kind of host
Init ==
    /\ pc = "start" /\ runs = 1
    /\ total \in 0..MaxHosts
    /\ env = [kinds |-> HostKinds, answers |-> MaxAnswers]
    /\ file = NoState /\ fileDone = {}
    /\ MemoryInit /\ RestIdle

\* successive processes over the same domain file
InitResume ==
    /\ pc = "start" /\ runs = 1
    /\ total \in {2, MaxHosts}
    /\ env = [kinds |-> ResumeKinds, answers |-> MaxResumeAnswers]
    /\ file = NoState /\ fileDone = {}
    /\ MemoryInit /\ RestIdle

(***************************************************************************)
(* Entering start_scanning                                                 *)
(***************************************************************************)
\* start_scanning up to the try: a new scanner, nothing probed
EnterScan(idx) ==
    /\ resume_index' = idx
    /\ data_counter' = NewCounter /\ found_domains' = <<>> /\ found_count' = 0
    /\ i_bound' = FALSE
    /\ pc' = "loop_head"
    /\ UNCHANGED <<i, stats, host, result, all_found, ret, runs, total, env, logVars, restVars,
                   probed, completed, answered, exceededAt, endedBy, intSaved, lastSaved>>

\* main() up to the call of start_scanning: signal.signal, ask_resume, get_domain_file
StartMain ==
    /\ pc = "start"
    /\ \E choice \in {1, 2, 3} :
         LET loaded == load(file)
             st == ask_resume(loaded, choice)
         IN  /\ state' = st
             /\ file' = IF loaded.some /\ choice # 1 THEN delete(file) ELSE file
             /\ fileDone' = IF loaded.some /\ choice # 1 THEN {} ELSE fileDone
             /\ resumedDone' = IF st.some THEN fileDone ELSE {}
             /\ EnterScan(main_resume_index(st))
    /\ entry' = "main" /\ handler' = "exit"

\* start_scanning(domains) called without main(): SIGINT keeps its default disposition
StartDirect ==
    /\ pc = "start"
    /\ entry' = "direct"
    /\ EnterScan(0)
    /\ UNCHANGED <<handler, state, resumedDone, fileVars>>

(***************************************************************************)
(* start_scanning: the loop                                                *)
(***************************************************************************)
NextIndex == IF i_bound THEN i + 1 ELSE resume_index

\* for i in range(resume_index, total): ... show_progress ...; scan_domain is entered
ForNext ==
    /\ pc = "loop_head"
    /\ NextIndex < total
    /\ i' = NextIndex /\ i_bound' = TRUE
    /\ stats' = get_stats(data_counter)
    /\ \E h \in HostKinds :
         /\ h \in env.kinds
         /\ h = DeadHost \/ data_counter.requests_made < env.answers
         /\ host' = h
    /\ result' = NoResult
    /\ probed' = probed \cup {NextIndex}
    /\ answered' = FALSE
    /\ pc' = "head_req"
    /\ UNCHANGED <<procVars_rest, mainVars, data_counter, found_domains, found_count,
                   completed, exceededAt, endedBy, intSaved, lastSaved, resumedDone,
                   fileVars, logVars, restVars>>

\* the range is exhausted
ForEnd ==
    /\ pc = "loop_head"
    /\ ~(NextIndex < total)
    /\ endedBy' = "completed"
    /\ pc' = "final"
    /\ UNCHANGED <<procVars_rest, mainVars, scanVars, probed, completed, answered,
                   exceededAt, intSaved, lastSaved, resumedDone, fileVars, logVars, restVars>>

(***************************************************************************)
(* scan_domain on domains[i]: minimal_request (HEAD, then GET), then the   *)
(* success criteria                                                        *)
(***************************************************************************)
\* scan_domain returns: res is what minimal_request returned
Scanned(res) ==
    /\ result' = res
    /\ found_domains' = IF scan_domain(res) THEN Append(found_domains, i) ELSE found_domains
    /\ found_count' = IF scan_domain(res) THEN found_count + 1 ELSE found_count
    /\ completed' = completed \cup {i}
    /\ pc' = "post_scan"

NoteExceeded(allowed) ==
    exceededAt' = IF ~allowed /\ exceededAt = -1 THEN i ELSE exceededAt

\* session.head(...): an answer below 400 is accounted and returned if add_bytes allows it;
\* an exception, a status >= 400 or a refused accounting falls through to the GET
HeadRequest ==
    /\ pc = "head_req"
    /\ answered' = host.head.ok
    /\ LET r == host.head
       IN  IF r.ok /\ r.status < 400
           THEN LET a == add_bytes(data_counter, head_data_used(r))
                IN  /\ data_counter' = a.dc
                    /\ NoteExceeded(a.ret)
                    /\ IF a.ret
                       THEN Scanned(head_result(r))
                       ELSE /\ pc' = "get_req"
                            /\ UNCHANGED <<result, found_domains, found_count, completed>>
           ELSE /\ pc' = "get_req"
                /\ UNCHANGED <<data_counter, exceededAt, result, found_domains,
                               found_count, completed>>
    /\ UNCHANGED <<procVars_rest, mainVars, i, i_bound, stats, host, probed, endedBy,
                   intSaved, lastSaved, resumedDone, fileVars, logVars, restVars>>

\* session.get(..., stream=True): the sampled answer is accounted; the result is returned
\* if add_bytes allows it, None otherwise and on any exception
GetRequest ==
    /\ pc = "get_req"
    /\ answered' = (answered \/ host.get.ok)
    /\ LET r == host.get
       IN  IF r.ok
           THEN LET a == add_bytes(data_counter, get_data_used(r))
                IN  /\ data_counter' = a.dc
                    /\ NoteExceeded(a.ret)
                    /\ Scanned(IF a.ret THEN get_result(r) ELSE NoResult)
           ELSE /\ Scanned(request_failed)
                /\ UNCHANGED <<data_counter, exceededAt>>
    /\ UNCHANGED <<procVars_rest, mainVars, i, i_bound, stats, host, probed, endedBy,
                   intSaved, lastSaved, resumedDone, fileVars, logVars, restVars>>

\* after scan_domain: the save every 10 domains, then the data limit check on the
\* stats dict taken before the probe
PostScanWith(outcome) ==
    /\ pc = "post_scan"
    /\ LET current_number == i + 1
           periodic == current_number % 10 = 0
           written == save(total, current_number, found_domains)
           saved == periodic /\ save_returns(outcome)
       IN  /\ file' = IF periodic THEN save_file(file, written, outcome) ELSE file
           /\ fileDone' = IF saved THEN completed
                          ELSE IF periodic /\ outcome = "dump_failed" THEN {} ELSE fileDone
           /\ lastSaved' = IF saved THEN written ELSE lastSaved
           /\ saveOk' = IF periodic THEN save_returns(outcome) ELSE saveOk
    /\ IF stats.bytes >= MAX_DATA_USAGE
       THEN pc' = "final" /\ endedBy' = "budget"
       ELSE pc' = "sleep" /\ UNCHANGED endedBy
    /\ host' = NoHost /\ result' = NoResult /\ answered' = FALSE
    /\ UNCHANGED <<procVars_rest, mainVars, i, i_bound, stats, data_counter, found_domains,
                   found_count, probed, completed, exceededAt, intSaved, resumedDone,
                   logVars, trafficVars, cmpVars, storeVars, sampleVars>>

\* the state file can be written
PostScan == PostScanWith("ok")

\* the periodic save fails
PostScanFaulty ==
    /\ (i + 1) % 10 = 0
    /\ \E outcome \in SaveOutcomes \ {"ok"} : PostScanWith(outcome)

\* time.sleep(0.1)
Sleep ==
    /\ pc = "sleep"
    /\ pc' = "loop_head"
    /\ UNCHANGED <<procVars_rest, mainVars, scanVars, histVars, fileVars, logVars, restVars>>

\* after the loop: get_stats, show_progress(total, total, ...) which divides by total,
\* return scanner.found_domains, stats
Final ==
    /\ pc = "final"
    /\ stats' = get_stats(data_counter)
    /\ IF total = 0
       THEN pc' = "crashed" /\ UNCHANGED ret
       ELSE /\ ret' = [some |-> TRUE, found |-> found_domains,
                       stats |-> get_stats(data_counter)]
            /\ pc' = IF entry = "main" THEN "returned" ELSE "done"
    /\ UNCHANGED <<procVars_rest, state, resume_index, all_found, i, i_bound, data_counter,
                   found_domains, found_count, host, result, histVars, fileVars, logVars, restVars>>

(***************************************************************************)
(* SIGINT                                                                  *)
(***************************************************************************)
InTry == pc \in {"loop_head", "get_req", "post_scan", "sleep", "final"}

\* during session.head: whatever the handler raises is caught by the bare except
SigintDuringHead ==
    /\ pc = "head_req"
    /\ pc' = "get_req"
    /\ UNCHANGED <<procVars_rest, mainVars, scanVars, histVars, fileVars, logVars, restVars>>

\* default disposition: KeyboardInterrupt reaches the except clause of start_scanning
SigintKeyboardInterrupt ==
    /\ InTry /\ handler = "default"
    /\ LET written == save(total, current_pos, found_domains)
       IN  /\ file' = written
           /\ lastSaved' = written
    /\ fileDone' = completed
    /\ intSaved' = TRUE
    /\ endedBy' = "interrupted"
    /\ ret' = [some |-> TRUE, found |-> found_domains, stats |-> get_stats(data_counter)]
    /\ pc' = IF entry = "main" THEN "returned" ELSE "done"
    /\ saveOk' = TRUE
    /\ UNCHANGED <<procVars_rest, state, resume_index, all_found, scanVars, probed,
                   completed, answered, exceededAt, resumedDone, logVars, trafficVars,
                   cmpVars, storeVars, sampleVars>>

\* main.signal_handler: sys.exit(0); SystemExit is caught neither by start_scanning
\* nor by the entry point
SigintSysExit ==
    /\ InTry /\ handler = "exit"
    /\ endedBy' = "interrupted"
    /\ pc' = "exited"
    /\ UNCHANGED <<procVars_rest, mainVars, scanVars, probed, completed, answered,
                   exceededAt, intSaved, lastSaved, resumedDone, fileVars, logVars, restVars>>

(***************************************************************************)
(* main() after start_scanning has returned                                *)
(***************************************************************************)
MainFinish ==
    /\ pc = "returned"
    /\ all_found' = main_all_found(main_found_domains(state), ret.found)
    /\ file' = delete(file)
    /\ fileDone' = {}
    /\ pc' = "done"
    /\ UNCHANGED <<procVars_rest, state, resume_index, ret, scanVars, histVars, logVars, restVars>>

\* the process has ended; the next one starts with the state file as it was left
NextProcess ==
    /\ pc \in {"done", "exited", "crashed"}
    /\ runs < MaxRuns
    /\ runs' = runs + 1
    /\ pc' = "start"
    /\ entry' = "-" /\ handler' = "default"
    /\ state' = NoState /\ resume_index' = 0 /\ all_found' = {} /\ ret' = NoRet
    /\ i' = 0 /\ i_bound' = FALSE /\ stats' = NoStats /\ data_counter' = NewCounter
    /\ found_domains' = <<>> /\ found_count' = 0 /\ host' = NoHost /\ result' = NoResult
    /\ probed' = {} /\ completed' = {} /\ answered' = FALSE /\ exceededAt' = -1 /\ endedBy' = "-"
    /\ intSaved' = FALSE /\ lastSaved' = NoState /\ resumedDone' = {}
    /\ UNCHANGED <<total, env, fileVars, logVars, restVars>>

Next ==
    \/ StartMain \/ StartDirect
    \/ ForNext \/ ForEnd \/ HeadRequest \/ GetRequest \/ PostScan \/ Sleep \/ Final
    \/ SigintDuringHead \/ SigintKeyboardInterrupt \/ SigintSysExit
    \/ MainFinish

Spec == Init /\ [][Next]_vars

NextResume == Next \/ NextProcess

SpecResume == InitResume /\ [][NextResume]_vars

(***************************************************************************)
(* Two runs over the same list, the second knowing what the first returned *)
(***************************************************************************)
TwiceKinds ==
    { DeadHost,
      Kind(Resp(200, 4920, <<>>), Resp(200, 4920, FullBody)),
      Kind(Exc, Resp(200, 4920, FullBody)) }

InitTwice ==
    /\ pc = "start" /\ runs = 1
    /\ total \in 1..(MaxAnswers + 2)
    /\ env = [kinds |-> TwiceKinds, answers |-> MaxAnswers]
    /\ file = NoState /\ fileDone = {}
    /\ MemoryInit /\ RestIdle

\* the first run has ended; the second starts with the state file as it was left
SecondRun ==
    /\ pc \in {"done", "exited", "crashed"}
    /\ runs = 1
    /\ runs' = 2
    /\ prevRet' = ret /\ prevEndedBy' = endedBy
    /\ pc' = "start"
    /\ entry' = "-" /\ handler' = "default"
    /\ state' = NoState /\ resume_index' = 0 /\ all_found' = {} /\ ret' = NoRet
    /\ i' = 0 /\ i_bound' = FALSE /\ stats' = NoStats /\ data_counter' = NewCounter
    /\ found_domains' = <<>> /\ found_count' = 0 /\ host' = NoHost /\ result' = NoResult
    /\ probed' = {} /\ completed' = {} /\ answered' = FALSE /\ exceededAt' = -1 /\ endedBy' = "-"
    /\ intSaved' = FALSE /\ lastSaved' = NoState /\ resumedDone' = {}
    /\ UNCHANGED <<total, env, fileVars, logVars, trafficVars, storeVars, sampleVars, faultVars>>

NextTwice == Next \/ SecondRun

SpecTwice == InitTwice /\ [][NextTwice]_vars

(***************************************************************************)
(* A run whose state file may be unreadable and whose saves may fail       *)
(***************************************************************************)
\* the state file when the process starts: none, one that is not a complete document,
\* or the checkpoint of a run interrupted at host 1 after it found host 0
StartFiles == {NoState, PartialFile, save(MaxHosts, 1, <<0>>)}

InitFaulty ==
    /\ pc = "start" /\ runs = 1
    /\ total = MaxHosts
    /\ env = [kinds |-> ResumeKinds, answers |-> MaxResumeAnswers]
    /\ file \in StartFiles
    /\ fileDone = IF file.some /\ file # PartialFile THEN {0} ELSE {}
    /\ MemoryInit /\ RestIdle

NextFaulty == Next \/ PostScanFaulty

SpecFaulty == InitFaulty /\ [][NextFaulty]_vars

(***************************************************************************)
(* The budget alone: any sequence of add_bytes calls on one DataCounter    *)
(***************************************************************************)
InitCounter ==
    /\ pc = "counter" /\ runs = 1
    /\ total = 0
    /\ env = [kinds |-> {DeadHost}, answers |-> 0]
    /\ file = NoState /\ fileDone = {}
    /\ MemoryInit /\ RestIdle

CounterCall ==
    /\ pc = "counter"
    /\ Len(callLog) < MaxCalls
    /\ \E n \in ByteCounts :
         LET a == add_bytes(data_counter, n)
         IN  /\ data_counter' = a.dc
             /\ callLog' = Append(callLog, n)
             /\ retLog' = Append(retLog, a.ret)
    /\ UNCHANGED <<procVars, mainVars, i, i_bound, stats, found_domains, found_count, host,
                   result, histVars, fileVars, restVars>>

SpecCounter == InitCounter /\ [][CounterCall]_vars

(***************************************************************************)
(* The chunk loop of the GET alone: any stream of chunks                   *)
(***************************************************************************)
MaxChunks == 3      \* longest stream of chunks

\* sizes of the chunks iter_content(chunk_size=CHUNK_SIZE) yields
ChunkSizes == {1, 100, CHUNK_SIZE - 1, CHUNK_SIZE}

InitSample ==
    /\ pc = "sample" /\ runs = 1
    /\ total = 0
    /\ env = [kinds |-> {DeadHost}, answers |-> 0]
    /\ file = NoState /\ fileDone = {}
    /\ MemoryInit
    /\ TrafficIdle /\ NoPrev /\ StoreIdle /\ NoFault
    /\ stream \in UNION {[1..n -> ChunkSizes] : n \in 0..MaxChunks}
    /\ sampled = 0

\* for chunk in response.iter_content(...): ...; response.close()
SampleBody ==
    /\ pc = "sample"
    /\ sampled' = read_content(stream, 0)
    /\ pc' = "sample_done"
    /\ UNCHANGED <<procVars_rest, mainVars, scanVars, histVars, fileVars, logVars,
                   trafficVars, cmpVars, storeVars, stream, faultVars>>

SpecSample == InitSample /\ [][SampleBody]_vars

(***************************************************************************)
(* The state file alone: save, load and clear in any order, and a process  *)
(* that dies while save is writing                                         *)
(***************************************************************************)
MaxSaved == 2       \* largest cursor saved in this specification

\* the arguments of save in this specification
SavedFound == {<<>>, <<0>>}

InitStore ==
    /\ pc = "store" /\ runs = 1
    /\ total = MaxSaved
    /\ env = [kinds |-> {DeadHost}, answers |-> 0]
    /\ file = NoState /\ fileDone = {}
    /\ MemoryInit /\ RestIdle

StoreFrame == UNCHANGED <<procVars_rest, mainVars, scanVars, histVars, fileDone, logVars,
                          trafficVars, cmpVars, sampleVars, faultVars>>

Op(name) == lastOps' = <<lastOps[2], name>>

\* save up to json.dump: open(STATE_FILE, 'w') has truncated the file
SaveOpen ==
    /\ pc = "store"
    /\ \E current_index \in 0..MaxSaved, found \in SavedFound :
         saving' = save(total, current_index, found)
    /\ prevCheckpoint' = file
    /\ file' = PartialFile
    /\ pc' = "store_writing"
    /\ raised' = FALSE
    /\ Op("save")
    /\ UNCHANGED loadRet
    /\ StoreFrame

\* json.dump has written the whole document; the file is closed; return True
SaveDump ==
    /\ pc = "store_writing"
    /\ file' = saving
    /\ pc' = "store"
    /\ UNCHANGED <<saving, loadRet, raised, prevCheckpoint, lastOps>>
    /\ StoreFrame

\* the process dies between open and the end of json.dump; the next process starts
CrashInSave ==
    /\ pc = "store_writing"
    /\ pc' = "store"
    /\ loadRet' = NoState
    /\ Op("crash")
    /\ UNCHANGED <<file, saving, raised, prevCheckpoint>>
    /\ StoreFrame

Load ==
    /\ pc = "store"
    /\ loadRet' = load(file)
    /\ raised' = FALSE
    /\ Op("load")
    /\ UNCHANGED <<pc, file, saving, prevCheckpoint>>
    /\ StoreFrame

Clear ==
    /\ pc = "store"
    /\ file' = clear(file).file
    /\ raised' = clear(file).raised
    /\ Op("clear")
    /\ UNCHANGED <<pc, saving, loadRet, prevCheckpoint>>
    /\ StoreFrame

NextStore == SaveOpen \/ SaveDump \/ CrashInSave \/ Load \/ Clear

SpecStore == InitStore /\ [][NextStore]_vars

(***************************************************************************)
(* TrafficScanner: check_domain                                            *)
(***************************************************************************)
\* response.raw.read(CHUNK_SIZE, ...): the number of bytes it returns
raw_read(body) ==
    IF body = <<>> THEN 0
    ELSE IF Head(body) < CHUNK_SIZE THEN Head(body) ELSE CHUNK_SIZE

\* every exception of the HEAD or of the GET is caught and gives False
check_domain(k) ==
    IF ~k.head.ok THEN FALSE
    ELSE IF k.head.status \in {405, 501}
         THEN IF ~k.get.ok THEN FALSE ELSE raw_read(k.get.body) > 0
         ELSE TRUE

(***************************************************************************)
(* TrafficScanner: scan_domains and its worker threads                     *)
(***************************************************************************)
\* len(range(min(self.max_workers, len(domains))))
thread_count(workers, n) ==
    LET m == IF workers < n THEN workers ELSE n
    IN  IF m > 0 THEN m ELSE 0

\* a queue that hands out its newest item
get_nowait_lifo(items) ==
    [item |-> items[Len(items)], rest |-> SubSeq(items, 1, Len(items) - 1)]

\* q.get_nowait() on a queue that is not empty: queue.Queue is first in, first out
get_nowait(items) == [item |-> Head(items), rest |-> Tail(items)]

\* an append that forgets what the list held
results_append_replace(res, d) == <<d>>

\* self.results.append(...)
results_append(res, d) == Append(res, d)

\* the settings prompt accepts any integer; the list is not empty (main() refuses an
\* empty file)
InitTraffic ==
    /\ pc = "scan_domains" /\ runs = 1
    /\ total = 0
    /\ env = [kinds |-> {DeadHost}, answers |-> 0]
    /\ file = NoState /\ fileDone = {}
    /\ MemoryInit
    /\ max_workers \in -1..MaxWorkers
    /\ domains \in UNION {[1..n -> TrafficKinds] : n \in 1..MaxDomains}
    /\ TrafficNew /\ NoPrev /\ StoreIdle /\ SampleIdle /\ NoFault

zbVars == <<procVars_rest, mainVars, scanVars, histVars, fileVars, logVars, cmpVars, storeVars, sampleVars, faultVars>>

\* scan_domains up to q.join(): the queue is filled, the threads are started
ScanDomains ==
    /\ pc = "scan_domains"
    /\ tstats' = [tstats EXCEPT !.total = Len(domains)]
    /\ queue' = [k \in 1..Len(domains) |-> k - 1]
    /\ unfinished_tasks' = Len(domains)
    /\ index' = 0
    /\ threads' = thread_count(max_workers, Len(domains))
    /\ wpc' = [w \in Workers |-> IF w <= thread_count(max_workers, Len(domains))
                                 THEN "while" ELSE "-"]
    /\ pc' = "join"
    /\ UNCHANGED <<zbVars, max_workers, domains, results, wdomain, wresult, wtmp, started>>

\* q.join() returns when every item put has been marked done; return self.results
JoinReturns ==
    /\ pc = "join"
    /\ unfinished_tasks = 0
    /\ pc' = "scan_done"
    /\ UNCHANGED <<zbVars, trafficVars>>

\* a step of worker w leaves the main thread and the other workers where they are
WorkerFrame == UNCHANGED <<pc, zbVars, max_workers, domains, threads>>

\* while not q.empty():
WhileNotEmpty(w) ==
    /\ wpc[w] = "while"
    /\ wpc' = [wpc EXCEPT ![w] = IF queue = <<>> THEN "exit" ELSE "get"]
    /\ WorkerFrame
    /\ UNCHANGED <<queue, unfinished_tasks, results, tstats, index, wdomain, wresult, wtmp,
                   started>>

\* domain = q.get_nowait(); queue.Empty leaves the loop; the progress line is written
\* and check_domain(domain) is called
GetNowait(w) ==
    /\ wpc[w] = "get"
    /\ IF queue = <<>>
       THEN /\ wpc' = [wpc EXCEPT ![w] = "exit"]
            /\ UNCHANGED <<queue, wdomain, started>>
       ELSE /\ wdomain' = [wdomain EXCEPT ![w] = get_nowait(queue).item]
            /\ queue' = get_nowait(queue).rest
            /\ started' = Append(started, get_nowait(queue).item)
            /\ wpc' = [wpc EXCEPT ![w] = "check"]
    /\ WorkerFrame
    /\ UNCHANGED <<unfinished_tasks, results, tstats, index, wresult, wtmp>>

\* result = self.check_domain(domain) returns
CheckDomain(w) ==
    /\ wpc[w] = "check"
    /\ wresult' = [wresult EXCEPT ![w] = check_domain(domains[wdomain[w] + 1])]
    /\ wpc' = [wpc EXCEPT ![w] = "record"]
    /\ WorkerFrame
    /\ UNCHANGED <<queue, unfinished_tasks, results, tstats, index, wdomain, wtmp, started>>

\* with threading.Lock(): a lock of its own, which no other thread ever holds.
\* self.results.append(...) and the load of self.stats[...] += 1
Record(w) ==
    /\ wpc[w] = "record"
    /\ results' = IF wresult[w] THEN results_append(results, wdomain[w]) ELSE results
    /\ wtmp' = [wtmp EXCEPT ![w] = IF wresult[w] THEN tstats.with_traffic
                                   ELSE tstats.no_traffic]
    /\ wdomain' = [wdomain EXCEPT ![w] = -1]
    /\ wpc' = [wpc EXCEPT ![w] = "count"]
    /\ WorkerFrame
    /\ UNCHANGED <<queue, unfinished_tasks, tstats, index, wresult, started>>

\* the store of self.stats[...] += 1
StoreCount(w) ==
    /\ wpc[w] = "count"
    /\ tstats' = IF wresult[w] THEN [tstats EXCEPT !.with_traffic = wtmp[w] + 1]
                 ELSE [tstats EXCEPT !.no_traffic = wtmp[w] + 1]
    /\ wresult' = [wresult EXCEPT ![w] = FALSE]
    /\ wtmp' = [wtmp EXCEPT ![w] = 0]
    /\ wpc' = [wpc EXCEPT ![w] = "index_load"]
    /\ WorkerFrame
    /\ UNCHANGED <<queue, unfinished_tasks, results, index, wdomain, started>>

\* index[0] += 1: the load
IndexLoad(w) ==
    /\ wpc[w] = "index_load"
    /\ wtmp' = [wtmp EXCEPT ![w] = index]
    /\ wpc' = [wpc EXCEPT ![w] = "index_store"]
    /\ WorkerFrame
    /\ UNCHANGED <<queue, unfinished_tasks, results, tstats, index, wdomain, wresult, started>>

\* index[0] += 1: the store
IndexStore(w) ==
    /\ wpc[w] = "index_store"
    /\ index' = wtmp[w] + 1
    /\ wtmp' = [wtmp EXCEPT ![w] = 0]
    /\ wpc' = [wpc EXCEPT ![w] = "total"]
    /\ WorkerFrame
    /\ UNCHANGED <<queue, unfinished_tasks, results, tstats, wdomain, wresult, started>>

\* self.stats['total'] = index[0]
SetTotal(w) ==
    /\ wpc[w] = "total"
    /\ tstats' = [tstats EXCEPT !.total = index]
    /\ wpc' = [wpc EXCEPT ![w] = "task_done"]
    /\ WorkerFrame
    /\ UNCHANGED <<queue, unfinished_tasks, results, index, wdomain, wresult, wtmp, started>>

\* q.task_done(), and back to the while
TaskDone(w) ==
    /\ wpc[w] = "task_done"
    /\ unfinished_tasks' = unfinished_tasks - 1
    /\ wpc' = [wpc EXCEPT ![w] = "while"]
    /\ WorkerFrame
    /\ UNCHANGED <<queue, results, tstats, index, wdomain, wresult, wtmp, started>>

Worker(w) ==
    \/ WhileNotEmpty(w) \/ GetNowait(w) \/ CheckDomain(w) \/ Record(w) \/ StoreCount(w)
    \/ IndexLoad(w) \/ IndexStore(w) \/ SetTotal(w) \/ TaskDone(w)

NextTraffic == ScanDomains \/ JoinReturns \/ \E w \in Workers : Worker(w)

SpecTraffic == InitTraffic /\ [][NextTraffic]_vars

(***************************************************************************)
(* Both scanners of the file: a process runs one or the other              *)
(***************************************************************************)
InitBoth == Init \/ InitTraffic

NextBoth == Next \/ NextTraffic

SpecBoth == InitBoth /\ [][NextBoth]_vars

(***************************************************************************)
(* Properties                                                              *)
(***************************************************************************)
RECURSIVE SumSeq(_)
SumSeq(q) == IF q = <<>> THEN 0 ELSE Head(q) + SumSeq(Tail(q))

PrefixSum(q, k) == SumSeq(SubSeq(q, 1, k))

Accessible(h) == h \in Range(found_domains)

\* C1: once add_bytes has returned False during the probe of a host, no probe is
\* started for any later host of the list
C1_NoProbeAfterBudgetFalse ==
    exceededAt # -1 => \A h \in probed : h <= exceededAt

\* C2: bytes_used is the exact sum of the arguments of the add_bytes calls; a call
\* returns True exactly when the cumulative sum up to it does not exceed
\* MAX_DATA_USAGE, so False from the first call that exceeds it and ever after
C2_BudgetExactSum ==
    /\ Len(retLog) = Len(callLog)
    /\ data_counter.bytes_used = SumSeq(callLog)
    /\ \A k \in 1..Len(retLog) :
         /\ retLog[k] = (PrefixSum(callLog, k) <= MAX_DATA_USAGE)
         /\ \A j \in 1..k : ~retLog[j] => ~retLog[k]

\* C2 witness: the sum reaches MAX_DATA_USAGE exactly and is allowed, the next call
\* exceeds it, and the call after that is refused too
C2_Witness ==
    /\ Len(retLog) = 4
    /\ PrefixSum(callLog, 2) = MAX_DATA_USAGE
    /\ retLog[2] /\ ~retLog[3] /\ ~retLog[4]

\* C3: a scan started by main() that is cancelled by SIGINT has saved a checkpoint
\* before control leaves the coordinator
C3_CancelSavesCheckpoint ==
    (entry = "main" /\ endedBy = "interrupted") => intSaved

\* C4: a run resumed from a checkpoint with cursor K and accessible set A probes only
\* hosts at indices K..N-1, and the accessible set main() reports contains A
C4_ResumeFromCursor ==
    state.some =>
        /\ \A h \in probed : state.current_index <= h /\ h <= total - 1
        /\ pc = "done" => Range(state.found_domains) \subseteq all_found

\* C4 witness: a resumed run with K > 0 and A not empty has probed hosts, found one
\* more and reported
C4_Witness ==
    /\ pc = "done" /\ state.some
    /\ state.current_index > 0 /\ state.found_domains # <<>>
    /\ probed # {} /\ ret.found # <<>>

\* C5: a host whose probe had completed when the checkpoint was written is not probed
\* again by the run resumed from that checkpoint
C5_NoReprobe ==
    \A h \in resumedDone : h \notin probed

\* C6: after a run that ended by interruption or at the data ceiling, when main() has
\* finished handling it, load() still returns the last checkpoint the run saved
C6_CheckpointKept ==
    (/\ pc = "done" /\ entry = "main"
     /\ endedBy \in {"interrupted", "budget"}
     /\ lastSaved.some)
        => load(file) = lastSaved

\* C7: after a run of main() in which every host was processed without reaching the
\* ceiling and without cancellation, load() returns None
C7_CompletedClearsCheckpoint ==
    (/\ pc = "done" /\ entry = "main"
     /\ endedBy = "completed" /\ exceededAt = -1)
        => ~load(file).some

\* C7 witness: such a run has written a periodic checkpoint and has ended
C7_Witness ==
    /\ pc = "done" /\ entry = "main"
    /\ endedBy = "completed" /\ exceededAt = -1
    /\ lastSaved.some /\ total > 10

FullHost(h) ==
    /\ h.get.ok /\ h.get.status = 200 /\ SumSeq(h.get.body) > 6000
    /\ h.head.ok => h.head.status = 200

\* C9: in a two-host list, with the budget not exceeded, a host answering 200 with more
\* than 6000 bytes is in the accessible set whichever request path produced the
\* result, and a host that times out is not
C9_FullHostAccessible ==
    (/\ pc = "post_scan" /\ total = 2
     /\ data_counter.bytes_used <= MAX_DATA_USAGE)
        => /\ FullHost(host) => Accessible(i)
           /\ host = DeadHost => ~Accessible(i)

\* C10: a probe result with status >= 400 never puts the host in the accessible set,
\* whatever its sampled size
C10_StatusBeforeSize ==
    (pc = "post_scan" /\ result.some /\ result.status >= 400) => ~Accessible(i)

\* C10 witness: scan_domain has returned for a result with status >= 400 and more
\* than 100 sampled bytes
C10_Witness ==
    /\ pc = "post_scan" /\ result.some
    /\ result.status >= 400 /\ result_size(result) > 100

\* C12: an empty host list is rejected before scanning starts: start_scanning is never
\* entered with zero work items, and no run over an empty list ends in an error
C12_EmptyListRejected ==
    /\ (entry # "-") => total > 0
    /\ pc # "crashed"

\* hosts of the list that start_scanning was asked to probe and has not probed
Unprobed == {h \in resume_index..(total - 1) : h \notin probed}

\* C11: a probe whose requests all fail returns the failure value, the host is recorded
\* as not accessible and the scan goes on: start_scanning leaves hosts unprobed only
\* when it was cancelled or the data ceiling was reached, and scan_domains returns only
\* after every domain was checked, with no failed domain among its results
C11_FailureNeverAborts ==
    /\ (pc = "post_scan" /\ host = DeadHost) => (~result.some /\ ~Accessible(i))
    /\ (pc \in {"final", "returned", "done", "crashed"} /\ endedBy # "interrupted"
        /\ Unprobed # {})
           => (endedBy = "budget" /\ data_counter.bytes_used >= MAX_DATA_USAGE)
    /\ \A w \in Workers :
         (wpc[w] = "record" /\ domains[wdomain[w] + 1] = DeadHost) => ~wresult[w]
    /\ \A d \in Range(results) : domains[d + 1] # DeadHost
    /\ pc = "scan_done" => Len(started) = Len(domains)

\* C11 witness: the probe of host 1 has started after every request to host 0 failed
C11_Witness ==
    /\ pc = "head_req" /\ i = 1 /\ 0 \in completed
    /\ data_counter.requests_made = 0 /\ found_domains = <<>>

\* domains whose check_domain call is in progress
InFlight == {wdomain[w] : w \in {v \in Workers : wpc[v] = "check"}}

\* C13: with one worker the hosts are probed strictly in input order, one at a time.
\* start_scanning: the hosts probed so far are resume_index..i and all but host i are
\* completed.  scan_domains with max_workers = 1: the probes started so far are those
\* of domains 0, 1, ... in this order and none but the last started is in progress
C13_InputOrder ==
    /\ i_bound => /\ probed = resume_index..i
                  /\ \A h \in resume_index..(i - 1) : h \in completed
    /\ max_workers = 1
         => /\ started = [k \in 1..Len(started) |-> k - 1]
            /\ \A d \in InFlight : d = started[Len(started)]

\* C13 witness: the single worker has started the probe of the second domain
C13_Witness ==
    /\ max_workers = 1 /\ Len(started) = 2 /\ InFlight = {1}

\* the results list that one worker builds: the domains in list order, those for which
\* check_domain returns True
RECURSIVE SequentialResults(_, _)
SequentialResults(doms, d) ==
    IF d >= Len(doms) THEN <<>>
    ELSE (IF check_domain(doms[d + 1]) THEN <<d>> ELSE <<>>) \o SequentialResults(doms, d + 1)

\* C14: when scan_domains returns, the run with one worker has built SequentialResults,
\* and a run with more than one worker has built, under every interleaving, a list of
\* the same domains, each once, in some order
C14_SameSetAsOneWorker ==
    pc = "scan_done"
      => /\ max_workers = 1 => results = SequentialResults(domains, 0)
         /\ max_workers > 1
              => /\ Range(results) = Range(SequentialResults(domains, 0))
                 /\ Len(results) = Len(SequentialResults(domains, 0))

\* C14 witness: two workers have returned the two domains with traffic in the order
\* opposite to the list
C14_Witness ==
    /\ pc = "scan_done" /\ max_workers > 1 /\ threads > 1
    /\ results = <<1, 0>>

\* C15: scan_domains eventually returns for every worker count: it is never left in
\* q.join() waiting for tasks while no worker thread is running to mark them done
C15_ScanDomainsReturns ==
    ~(/\ pc = "join" /\ unfinished_tasks > 0
      /\ \A w \in Workers : wpc[w] \in {"-", "exit"})

\* C16: what start_scanning returns after a stop at the data ceiling that left hosts
\* unprobed differs from what it returns after a completed run over the same list, so
\* that the caller can tell the two apart, and it holds every accessible host
\* accumulated before the stop
C16_BudgetStopDistinct ==
    /\ (ret.some /\ prevRet.some /\ endedBy = "budget" /\ Unprobed # {}
        /\ prevEndedBy = "completed")
         => ret # prevRet
    /\ (ret.some /\ endedBy = "budget") => ret.found = found_domains

\* C17: when the process has died during a save that began over a valid checkpoint,
\* the load() that follows returns that checkpoint or the one being saved
C17_SaveAtomic ==
    (lastOps = <<"crash", "load">> /\ prevCheckpoint.some /\ prevCheckpoint # PartialFile)
       => (loadRet = prevCheckpoint \/ loadRet = saving)

\* C18: clear() never raises and leaves no state file, whether or not there was one, so
\* a second clear() leaves what the first left, and the load() after it returns None
C18_ClearIdempotent ==
    /\ lastOps[2] = "clear" => (~raised /\ file = NoState)
    /\ lastOps = <<"clear", "load">> => ~loadRet.some

\* C18 witness: after a save, clear() was called twice in a row, the second time with
\* no state file
C18_Witness ==
    /\ lastOps = <<"clear", "clear">> /\ saving.some
    /\ file = NoState /\ ~raised

\* C19: the GET of a probe is never sent after an add_bytes call of that probe returned
\* False.  stats is the snapshot start_scanning took before the probe, so more requests
\* in the counter than in stats means add_bytes was called for the HEAD of this probe;
\* it returned False, or the probe would have returned at once
C19_NoRequestAfterRefusal ==
    pc = "get_req" => data_counter.requests_made = stats.requests

\* C20: the last checkpoint written by a run lists every host the run has found
\* accessible below the saved cursor, and, when the run was resumed from a checkpoint,
\* every host that checkpoint listed
C20_CheckpointKeepsResumed ==
    lastSaved.some
      => /\ \A h \in Range(found_domains) :
              h < lastSaved.current_index => h \in Range(lastSaved.found_domains)
         /\ state.some => Range(state.found_domains) \subseteq Range(lastSaved.found_domains)

\* C21: within one run the cursor of a checkpoint is never smaller than the cursor of
\* the checkpoint the run saved before it
C21_CursorNeverDecreases ==
    [][(lastSaved.some /\ lastSaved'.some)
         => lastSaved'.current_index >= lastSaved.current_index]_vars

\* C22: when a checkpoint written by this run is in the state file, every host from
\* the run's starting index up to, and not including, the saved cursor had been
\* scanned when it was written
C22_CursorBehindAttempted ==
    (lastSaved.some /\ file = lastSaved)
       => \A h \in resume_index..(lastSaved.current_index - 1) : h \in fileDone

\* C22 witness: the run was interrupted during the probe of host 1 and has saved
\* cursor 1
C22_Witness ==
    /\ intSaved /\ file = lastSaved /\ lastSaved.current_index = 1
    /\ 1 \in probed /\ 1 \notin completed /\ 0 \in fileDone

\* C23: no update of the shared counters is lost: when scan_domains returns from a run
\* with more than one worker, the processed counter is the number of domains and so is
\* with_traffic + no_traffic + errors
C23_NoLostUpdate ==
    (pc = "scan_done" /\ threads > 1)
       => /\ index = Len(domains)
          /\ tstats.total = Len(domains)
          /\ tstats.with_traffic + tstats.no_traffic + tstats.errors = Len(domains)

\* C24: for every stream of chunks of at most CHUNK_SIZE bytes each, the body
\* accumulated by the chunk loop is at most CHUNK_SIZE bytes
C24_SampleWithinChunkSize ==
    pc = "sample_done" => sampled <= CHUNK_SIZE

\* C25: a checkpoint that cannot be written or read does not end the run.  A run
\* started through main() over a state file that is not a complete document has no
\* resume state and starts from index 0, and the step in which the periodic save
\* returns False leaves the cursor and the accessible hosts as they were and goes on to
\* the sleep before the next host (or to the end of the run at the data ceiling)
C25_CheckpointFailureNotFatal ==
    /\ [](pc # "crashed")
    /\ []((entry = "main" /\ file = PartialFile /\ saveOk)
             => (~state.some /\ resume_index = 0))
    /\ [][(pc = "post_scan" /\ (i + 1) % 10 = 0 /\ ~saveOk' /\ endedBy' # "interrupted")
            => /\ pc' \in {"sleep", "final"}
               /\ pc' = "final" => endedBy' = "budget"
               /\ i' = i /\ found_domains' = found_domains]_vars

\* C25 witness: a run started through main() over an unreadable state file has probed
\* from host 0 on, its periodic save after host 9 has failed, and it is probing host 10
C25_Witness ==
    /\ entry = "main" /\ file = PartialFile /\ ~saveOk /\ ~state.some
    /\ pc = "head_req" /\ i = 10 /\ probed = 0..10

====
